---- MODULE Spec2Model ----
(***************************************************************************)
(* Model of the retrieval-augmentation pipeline of aws-rag-chatbot-platform *)
(*   backend/src/services/opensearch_service.py   (document index client)   *)
(*   backend/src/services/rag_service.py          (RAG orchestrator)        *)
(*                                                                         *)
(* Text is modelled by TLA+ strings, so that the concatenation the id is    *)
(* computed from is a real concatenation.  An optional argument (Python     *)
(* None or a value) is a sequence of length 0 or 1.  An exception is the    *)
(* sequence of the message prefixes the handlers wrap around the cause,     *)
(* outermost first, ending in the cause.                                    *)
(*                                                                         *)
(* The specifications share the variables:                                 *)
(*   SpecStore   index / update / delete of documents, one call per step    *)
(*   SpecTimed   the same over two documents, with the clock advancing      *)
(*   SpecSearch  the same over two documents, with search_documents         *)
(*   SpecConc    index_document by two concurrent callers, step by step     *)
(*   SpecSchema  schema creation and cold-start search, one remote call per *)
(*               step, by concurrent callers                                *)
(*   SpecRemote  the attempts of the remote calls of one operation          *)
(*   SpecRag     one chat request: retrieval, then generate_response        *)
(*   SpecCite    one chat request over candidates of every content length   *)
(*   SpecChat    one request to a /chat route, from its body to its answer  *)
(*   SpecIngest  invocations of the document processor Lambda: S3 events    *)
(*               record by record, and direct invocations                   *)
(***************************************************************************)
EXTENDS Integers, Sequences, FiniteSets, TLC

VARIABLES
    indices,    \* backing store: index name -> schema of the indices that exist
    store,      \* backing store: document id -> record of the document index
    now,        \* the wall clock read by datetime.now()
    resp,       \* what the last document-index operation handed to its caller
    prev,       \* when resp is an indexed document: the result of the call before,
                \* if that call indexed a document too; in SpecTimed and
                \* SpecSearch the arguments of the update_document call
    callers,    \* position of each caller: of ensure_schema / search in
                \* SpecSchema, of index_document in SpecConc, of the one
                \* operation in progress in SpecRemote, of the invocation of
                \* the document processor Lambda in SpecIngest
    rag         \* the generate_response call in progress

vars == <<indices, store, now, resp, prev, callers, rag>>

-----------------------------------------------------------------------------
(* Bounds and input sets *)

Titles == {"a", "ab"}
Contents == {"c", "bc"}
Metas == {{"k"}}

None == <<>>
Some(x) == <<x>>
Opt(S) == {None} \cup {Some(x) : x \in S}

\* Python truthiness of an optional string / dict: None, "" and {} are falsy
TruthyStr(o) == o # None /\ o[1] # ""
TruthyMeta(o) == o # None /\ o[1] # {}

-----------------------------------------------------------------------------
(* The index schema *)

IndexName == "chatbot-documents"

EmbeddingDims == 1536

RequiredSchema ==
    [ title      |-> "text:spanish_analyzer+keyword",
      content    |-> "text:spanish_analyzer",
      embedding  |-> <<"dense_vector", EmbeddingDims>>,
      metadata   |-> "object",
      created_at |-> "date",
      updated_at |-> "date" ]

IndexExists == IndexName \in DOMAIN indices

-----------------------------------------------------------------------------
(* Document index: pure parts *)

\* hashlib.md5(...).hexdigest(): the digest is modelled as a tag on the hashed
\* text, i.e. MD5 is taken to be collision-free on the texts of the model.
Md5(text) == "md5:" \o text

DocIdOfTitle(title, content) == Md5(title)

DocIdAuto(title, content) == "auto:" \o ToString(Cardinality(DOMAIN store))

\* doc_id = hashlib.md5(f"{title}{content}".encode()).hexdigest()
DocId(title, content) == Md5(title \o content)

AllIds == {DocId(t, c) : t \in Titles, c \in Contents}

\* The vector the embedding model returns for a text
Embed(text) == <<"titan-embed-v2", text>>

\* _get_embedding_sync: the vector, or the wrapped failure of the remote call
GetEmbeddingSync(text, remoteOk) ==
    IF remoteOk
    THEN [ok |-> TRUE, value |-> Embed(text), err |-> <<>>]
    ELSE [ok |-> FALSE, value |-> <<>>, err |-> <<"Error getting embedding", "bedrock">>]

\* The write of a record that is kept only if the id is not held yet
PutIfAbsent(s, id, body) ==
    [i \in DOMAIN s \cup {id} |-> IF i = id /\ id \notin DOMAIN s THEN body ELSE s[i]]

\* The backing store's write of one record under an id (atomic per record)
Put(s, id, body) == [i \in DOMAIN s \cup {id} |-> IF i = id THEN body ELSE s[i]]

Remove(s, id) == [i \in DOMAIN s \ {id} |-> s[i]]

OkResp(op, id, title, content) ==
    [op |-> op, ok |-> TRUE, id |-> id, title |-> title, content |-> content, err |-> <<>>]

ErrResp(op, err) ==
    [op |-> op, ok |-> FALSE, id |-> "", title |-> "", content |-> "", err |-> err]

NoResp == [op |-> "none", ok |-> TRUE, id |-> "", title |-> "", content |-> "", err |-> <<>>]

IndexOk(r) == r.op = "index" /\ r.ok

\* The ids of the records of a store holding the pair (title, content)
RecordsFor(s, title, content) ==
    {i \in DOMAIN s : s[i].title = title /\ s[i].content = content}

-----------------------------------------------------------------------------
(* Document index: operations (OpenSearchService) *)

\* _index_document_sync with an embedding failure that does not abort: the
\* record is written without a vector
IndexOutcomeNoAbort(title, content, metadata, embedOk, writeOk) ==
    LET doc_id == DocId(title, content)
        body == [ title      |-> title,
                  content    |-> content,
                  embedding  |-> IF embedOk THEN Embed(content) ELSE <<>>,
                  metadata   |-> IF TruthyMeta(metadata) THEN metadata[1] ELSE {},
                  created_at |-> now,
                  updated_at |-> now ]
    IN  IF IndexExists /\ writeOk
        THEN [store |-> Put(store, doc_id, body), resp |-> OkResp("index", doc_id, title, content)]
        ELSE [store |-> store,
              resp  |-> ErrResp("index", <<"Error indexing document", "opensearch">>)]

\* _index_document_sync called without id: the store assigns a fresh one
IndexOutcomeFreshId(title, content, metadata, embedOk, writeOk) ==
    LET doc_id == DocIdAuto(title, content)
        body == [ title      |-> title,
                  content    |-> content,
                  embedding  |-> Embed(content),
                  metadata   |-> IF TruthyMeta(metadata) THEN metadata[1] ELSE {},
                  created_at |-> now,
                  updated_at |-> now ]
    IN  IF embedOk /\ IndexExists /\ writeOk
        THEN [store |-> Put(store, doc_id, body), resp |-> OkResp("index", doc_id, title, content)]
        ELSE [store |-> store,
              resp  |-> ErrResp("index", <<"Error indexing document", "opensearch">>)]

\* _index_document_sync: the store and the caller's result after one call.
\* embedOk / writeOk: whether the remote embedding call and the store's write
\* succeed.  The store rejects a write to an index that does not exist.
IndexOutcome(title, content, metadata, embedOk, writeOk) ==
    LET doc_id == DocId(title, content)
        emb == GetEmbeddingSync(content, embedOk)
        body == [ title      |-> title,
                  content    |-> content,
                  embedding  |-> emb.value,
                  metadata   |-> IF TruthyMeta(metadata) THEN metadata[1] ELSE {},
                  created_at |-> now,
                  updated_at |-> now ]
    IN  IF ~emb.ok
        THEN [store |-> store,
              resp  |-> ErrResp("index", <<"Error indexing document">> \o emb.err)]
        ELSE IF IndexExists /\ writeOk
        THEN [store |-> Put(store, doc_id, body), resp |-> OkResp("index", doc_id, title, content)]
        ELSE [store |-> store,
              resp  |-> ErrResp("index", <<"Error indexing document", "opensearch">>)]

IndexDocument ==
    \E title \in Titles, content \in Contents, metadata \in Opt(Metas),
       embedOk \in BOOLEAN, writeOk \in BOOLEAN :
        LET out == IndexOutcome(title, content, metadata, embedOk, writeOk)
        IN  /\ store' = out.store
            /\ resp' = out.resp
            /\ prev' = IF IndexOk(out.resp) /\ IndexOk(resp) THEN resp ELSE NoResp
            /\ UNCHANGED <<indices, now, callers, rag>>

\* update_document: the partial document sent to the store
UpdateBody(title, content, metadata) ==
    [ title    |-> IF TruthyStr(title) THEN title ELSE None,
      content  |-> IF TruthyStr(content) THEN content ELSE None,
      metadata |-> IF TruthyMeta(metadata) THEN metadata ELSE None ]

\* The store's partial update of a record: the fields sent replace the stored ones
Merge(rec, doc, embedding) ==
    [ title      |-> IF doc.title # None THEN doc.title[1] ELSE rec.title,
      content    |-> IF doc.content # None THEN doc.content[1] ELSE rec.content,
      embedding  |-> IF doc.content # None THEN embedding ELSE rec.embedding,
      metadata   |-> IF doc.metadata # None THEN doc.metadata[1] ELSE rec.metadata,
      created_at |-> rec.created_at,
      updated_at |-> now ]

\* update_document sending new content without a new embedding
UpdateOutcomeStaleEmbedding(document_id, title, content, metadata, embedOk, writeOk) ==
    LET doc == UpdateBody(title, content, metadata)
    IN  IF IndexExists /\ writeOk /\ document_id \in DOMAIN store
        THEN [store |-> Put(store, document_id,
                            Merge(store[document_id], doc, store[document_id].embedding)),
              resp  |-> OkResp("update", document_id, "", "")]
        ELSE [store |-> store,
              resp  |-> ErrResp("update", <<"Error updating document", "opensearch">>)]

\* update_document: the store rejects the update of an id it does not hold
UpdateOutcome(document_id, title, content, metadata, embedOk, writeOk) ==
    LET doc == UpdateBody(title, content, metadata)
        emb == IF doc.content # None
               THEN GetEmbeddingSync(doc.content[1], embedOk)
               ELSE [ok |-> TRUE, value |-> <<>>, err |-> <<>>]
    IN  IF ~emb.ok
        THEN [store |-> store,
              resp  |-> ErrResp("update", <<"Error updating document">> \o emb.err)]
        ELSE IF IndexExists /\ writeOk /\ document_id \in DOMAIN store
        THEN [store |-> Put(store, document_id, Merge(store[document_id], doc, emb.value)),
              resp  |-> OkResp("update", document_id, "", "")]
        ELSE [store |-> store,
              resp  |-> ErrResp("update", <<"Error updating document", "opensearch">>)]

UpdateDocument ==
    \E document_id \in AllIds, title \in Opt(Titles),
       content \in Opt(Contents), metadata \in Opt(Metas),
       embedOk \in BOOLEAN, writeOk \in BOOLEAN :
        LET out == UpdateOutcome(document_id, title, content, metadata, embedOk, writeOk)
        IN  /\ store' = out.store
            /\ resp' = out.resp
            /\ prev' = NoResp
            /\ UNCHANGED <<indices, now, callers, rag>>

\* delete_document answering a failed or rejected delete as a success
DeleteOutcomeSwallowed(document_id, writeOk) ==
    IF IndexExists /\ writeOk /\ document_id \in DOMAIN store
    THEN [store |-> Remove(store, document_id), resp |-> OkResp("delete", document_id, "", "")]
    ELSE [store |-> store, resp |-> OkResp("delete", document_id, "", "")]

\* delete_document: the store reports an id it does not hold as not found
DeleteOutcome(document_id, writeOk) ==
    IF IndexExists /\ writeOk /\ document_id \in DOMAIN store
    THEN [store |-> Remove(store, document_id), resp |-> OkResp("delete", document_id, "", "")]
    ELSE [store |-> store,
          resp  |-> ErrResp("delete", <<"Error deleting document", "opensearch">>)]

DeleteDocument ==
    \E document_id \in AllIds, writeOk \in BOOLEAN :
        LET out == DeleteOutcome(document_id, writeOk)
        IN  /\ store' = out.store
            /\ resp' = out.resp
            /\ prev' = NoResp
            /\ UNCHANGED <<indices, now, callers, rag>>

\* DELETE /documents/{document_id}: the answer to the client
DeleteEndpoint(r) ==
    IF r.ok
    THEN [status |-> 200, body |-> "Document deleted successfully"]
    ELSE [status |-> 500, body |-> r.err]

NoCallers == <<>>
NoRag == <<>>

\* After construction of the service: __init__ has run
\* _create_index_if_not_exists, which leaves the index created unless the
\* create call failed
InitStore ==
    /\ indices \in {<<>>, [n \in {IndexName} |-> RequiredSchema]}
    /\ store = <<>>
    /\ now = 0
    /\ resp = NoResp
    /\ prev = NoResp
    /\ callers = NoCallers
    /\ rag = NoRag

NextStore == IndexDocument \/ UpdateDocument \/ DeleteDocument

SpecStore == InitStore /\ [][NextStore]_vars

-----------------------------------------------------------------------------
(* Document index with a clock: the same operations over two documents of one *)
(* title, the clock advancing between calls                                    *)

MaxClock == 1

FewTitles == {"a"}
FewContents == {"c", "bc"}
NewTitles == {"ab"}
FewIds == {DocId(t, c) : t \in FewTitles, c \in FewContents}

\* The arguments of the last update_document call
UpdateRequest(title, content, metadata) ==
    [op |-> "update_request", title |-> title, content |-> content, metadata |-> metadata]

\* Whether the embedding call and the store's call of one operation succeed:
\* the store is not called after a failed embedding
RemoteOutcomes == {<<TRUE, TRUE>>, <<FALSE, TRUE>>, <<TRUE, FALSE>>}

IndexFew ==
    \E title \in FewTitles, content \in FewContents, metadata \in Opt(Metas),
       remote \in RemoteOutcomes :
        LET out == IndexOutcome(title, content, metadata, remote[1], remote[2])
        IN  /\ store' = out.store
            /\ resp' = out.resp
            /\ prev' = NoResp
            /\ UNCHANGED <<indices, now, callers, rag>>

UpdateFew ==
    \E document_id \in FewIds, title \in Opt(NewTitles),
       content \in Opt(FewContents), metadata \in Opt(Metas),
       remote \in RemoteOutcomes :
        LET out == UpdateOutcome(document_id, title, content, metadata, remote[1], remote[2])
        IN  /\ store' = out.store
            /\ resp' = out.resp
            /\ prev' = UpdateRequest(title, content, metadata)
            /\ UNCHANGED <<indices, now, callers, rag>>

DeleteFew ==
    \E document_id \in FewIds, writeOk \in BOOLEAN :
        LET out == DeleteOutcome(document_id, writeOk)
        IN  /\ store' = out.store
            /\ resp' = out.resp
            /\ prev' = NoResp
            /\ UNCHANGED <<indices, now, callers, rag>>

\* datetime.now() read by a later call is later
Tick ==
    /\ now < MaxClock
    /\ now' = now + 1
    /\ UNCHANGED <<indices, store, resp, prev, callers, rag>>

InitTimed ==
    /\ indices = [n \in {IndexName} |-> RequiredSchema]
    /\ store = <<>>
    /\ now = 0
    /\ resp = NoResp
    /\ prev = NoResp
    /\ callers = NoCallers
    /\ rag = NoRag

NextTimed == IndexFew \/ UpdateFew \/ DeleteFew \/ Tick

SpecTimed == InitTimed /\ [][NextTimed]_vars

-----------------------------------------------------------------------------
(* Concurrent index_document calls: each caller's _index_document_sync runs  *)
(* in a worker thread, its embedding call and its store write being separate *)
(* steps                                                                     *)

Writers == {1, 2}

IdleWriter ==
    [ pc |-> "idle", title |-> "", content |-> "", metadata |-> None, doc_id |-> "",
      body |-> <<>>, seq |-> 0, result |-> NoResp ]

\* The number of writes the store has applied
WritesApplied == Cardinality({w \in Writers : callers[w].seq > 0})

\* index_document is called: doc_id is computed (line 149)
BeginIndex(w) ==
    /\ callers[w].pc = "idle"
    /\ \E title \in FewTitles, content \in FewContents, metadata \in Opt(Metas) :
          callers' = [callers EXCEPT ![w] =
                        [@ EXCEPT !.pc = "embed", !.title = title, !.content = content,
                                  !.metadata = metadata, !.doc_id = DocId(title, content)]]
    /\ UNCHANGED <<indices, store, now, resp, prev, rag>>

\* the embedding call (line 152) and the body built from its answer (155-162)
EmbedCall(w) ==
    /\ callers[w].pc = "embed"
    /\ \E embedOk \in BOOLEAN :
          LET c == callers[w]
              emb == GetEmbeddingSync(c.content, embedOk)
          IN  callers' = [callers EXCEPT ![w] =
                IF emb.ok
                THEN [c EXCEPT !.pc = "write",
                               !.body = [ title      |-> c.title,
                                          content    |-> c.content,
                                          embedding  |-> emb.value,
                                          metadata   |-> IF TruthyMeta(c.metadata)
                                                         THEN c.metadata[1] ELSE {},
                                          created_at |-> now,
                                          updated_at |-> now ]]
                ELSE [c EXCEPT !.pc = "done",
                               !.result = ErrResp("index", <<"Error indexing document">>
                                                           \o emb.err)]]
    /\ UNCHANGED <<indices, store, now, resp, prev, rag>>

\* client.index (lines 165-169) and the return of its response (line 171);
\* seq numbers the writes in the order the store applied them
WriteCall(w) ==
    /\ callers[w].pc = "write"
    /\ \E writeOk \in BOOLEAN :
          LET c == callers[w]
          IN  IF IndexExists /\ writeOk
              THEN /\ store' = Put(store, c.doc_id, c.body)
                   /\ callers' = [callers EXCEPT ![w] =
                         [c EXCEPT !.pc = "done", !.seq = WritesApplied + 1,
                                   !.result = OkResp("index", c.doc_id, c.title, c.content)]]
              ELSE /\ store' = store
                   /\ callers' = [callers EXCEPT ![w] =
                         [c EXCEPT !.pc = "done",
                                   !.result = ErrResp("index", <<"Error indexing document",
                                                                 "opensearch">>)]]
    /\ UNCHANGED <<indices, now, resp, prev, rag>>

InitConc ==
    /\ indices = [n \in {IndexName} |-> RequiredSchema]
    /\ store = <<>>
    /\ now = 0
    /\ resp = NoResp
    /\ prev = NoResp
    /\ callers = [w \in Writers |-> IdleWriter]
    /\ rag = NoRag

NextConc == (\E w \in Writers : BeginIndex(w) \/ EmbedCall(w) \/ WriteCall(w)) \/ Tick

SpecConc == InitConc /\ [][NextConc]_vars

-----------------------------------------------------------------------------
(* Document index: properties *)

SamePair(r1, r2) == r1.title = r2.title /\ r1.content = r2.content

\* C1 (as stated): indexing the same (title, content) twice returns the same id
\* both times and afterwards the store holds exactly one record for that pair.
C1_IndexTwiceOneRecordForPair ==
    (IndexOk(resp) /\ IndexOk(prev) /\ SamePair(prev, resp)) =>
        /\ resp.id = prev.id
        /\ Cardinality(RecordsFor(store, resp.title, resp.content)) = 1

\* C1 (amended): indexing the same (title, content) twice returns the same id
\* both times and afterwards that id holds the pair; it is the only record of
\* the pair that is stored under the pair's own content-addressed id (a further
\* record of the pair can only be one that update rewrote under its old id).
C1_IndexTwiceOneRecordUnderId ==
    (IndexOk(resp) /\ IndexOk(prev) /\ SamePair(prev, resp)) =>
        /\ resp.id = prev.id
        /\ resp.id \in DOMAIN store
        /\ store[resp.id].title = resp.title
        /\ store[resp.id].content = resp.content
        /\ \A i \in RecordsFor(store, resp.title, resp.content) :
              i = resp.id \/ i # DocId(store[i].title, store[i].content)

\* the second of two index calls of one pair has returned, the store holding
\* other records besides
C1_Witness ==
    /\ IndexOk(resp) /\ IndexOk(prev) /\ SamePair(prev, resp)
    /\ Cardinality(DOMAIN store) >= 2
    /\ store[resp.id].metadata = {"k"}

C3_EveryIdContentAddressed ==
    \A i \in DOMAIN store : i = DocId(store[i].title, store[i].content)

\* C3 (amended): every record an operation creates or rewrites is held under
\* the content-addressed id of its current (title, content), except the record
\* that update rewrites in place, which keeps the id it had.
C3_IdContentAddressedWhenIndexed ==
    [][ \A i \in DOMAIN store' :
          (i \notin DOMAIN store \/ store'[i] # store[i]) =>
              \/ i = DocId(store'[i].title, store'[i].content)
              \/ resp'.op = "update" /\ resp'.ok /\ resp'.id = i /\ i \in DOMAIN store ]_vars

\* update has changed the content of a record, which is still held under the id
\* index gave it
C3_Witness ==
    /\ resp.op = "update" /\ resp.ok
    /\ resp.id \in DOMAIN store
    /\ resp.id # DocId(store[resp.id].title, store[resp.id].content)

\* C6: an index call whose embedding call or store write fails ends in an
\* error and leaves the store as it was, and no record is ever without the
\* embedding of its content.
C6_FailedIndexLeavesStore ==
    /\ [](\A i \in DOMAIN store : store[i].embedding = Embed(store[i].content))
    /\ [][ (resp'.op = "index" /\ ~resp'.ok) => store' = store ]_vars

\* an index call has failed on its embedding while the store holds records
C6_Witness ==
    /\ resp.op = "index" /\ ~resp.ok
    /\ resp.err = <<"Error indexing document", "Error getting embedding", "bedrock">>
    /\ store # <<>>

-----------------------------------------------------------------------------
(* Schema creation and cold-start search, step by step, by concurrent callers *)
(* (service instances): each remote call is one step.                        *)

NumCallers == 2

Callers == 1..NumCallers

\* search: what the remote search call of the operation ended with
Idle ==
    [ op |-> "none", pc |-> "idle", healing |-> FALSE, search |-> "none", exists |-> "none",
      create |-> "none", result |-> "none", hits |-> <<>>, err |-> <<>> ]

\* search_documents taking every failure of the search call for a missing index
IsMissingIndexAlways(cause) == TRUE

\* search_documents, line 221: "index_not_found_exception" in str(e)
IsMissingIndex(cause) == cause = "index_not_found_exception"

\* _create_index_if_not_exists, lines 118-122, re-raising what it caught
EnsureFailureRaised(cause) == [raised |-> TRUE, err |-> <<"Error creando indice", cause>>]

\* _create_index_if_not_exists, lines 118-122: whatever the exists or the create
\* call raised is printed and the function returns normally
EnsureFailure(cause) == [raised |-> FALSE, err |-> <<>>]

NoFailure == [raised |-> FALSE, err |-> <<>>]

RECURSIVE SeqOf(_)
SeqOf(S) ==
    IF S = {} THEN <<>>
    ELSE LET x == CHOOSE y \in S : TRUE IN <<x>> \o SeqOf(S \ {x})

\* search_documents, lines 206-215: the results built from the hits of the
\* store; matching and scores are not modelled by these steps
Hits(s) ==
    LET ids == SeqOf(DOMAIN s)
    IN  [k \in 1..Len(ids) |->
            [ id |-> ids[k], title |-> s[ids[k]].title, content |-> s[ids[k]].content,
              metadata |-> s[ids[k]].metadata, created_at |-> s[ids[k]].created_at ]]

\* How the operation of a caller ends once _create_index_if_not_exists is over:
\* __init__ (op "ensure") gets what it got; search_documents (op "search",
\* lines 221-229) returns [] unless the creation raised
EndEnsure(rec, failure) ==
    IF rec.op = "ensure"
    THEN [rec EXCEPT !.pc = "done",
                     !.result = IF failure.raised THEN "raised" ELSE "returned",
                     !.err = failure.err]
    ELSE IF failure.raised
         THEN [rec EXCEPT !.pc = "done", !.result = "raised",
                          !.err = <<"Error searching documents", "index_not_found_exception">>]
         ELSE [rec EXCEPT !.pc = "done", !.result = "returned", !.hits = <<>>]

\* A caller constructs the service: __init__ calls _create_index_if_not_exists
StartEnsure(c) ==
    /\ callers[c].pc \in {"idle", "done"}
    /\ callers' = [callers EXCEPT ![c] = [Idle EXCEPT !.op = "ensure", !.pc = "exists"]]
    /\ UNCHANGED <<indices, store, now, resp, prev, rag>>

\* A caller enters search_documents
StartSearch(c) ==
    /\ callers[c].pc \in {"idle", "done"}
    /\ callers' = [callers EXCEPT ![c] = [Idle EXCEPT !.op = "search", !.pc = "search"]]
    /\ UNCHANGED <<indices, store, now, resp, prev, rag>>

\* search_documents, lines 185-229: the remote search call and what follows it
SearchCall(c) ==
    /\ callers[c].pc = "search"
    /\ \E remoteOk \in BOOLEAN :
          LET cause == IF ~remoteOk THEN "opensearch"
                       ELSE IF ~IndexExists THEN "index_not_found_exception"
                       ELSE "ok"
          IN  callers' = [callers EXCEPT ![c] =
                IF cause = "ok"
                THEN [@ EXCEPT !.pc = "done", !.search = cause, !.result = "returned",
                               !.hits = Hits(store)]
                ELSE IF IsMissingIndex(cause)
                THEN [@ EXCEPT !.pc = "exists", !.search = cause, !.healing = TRUE]
                ELSE [@ EXCEPT !.pc = "done", !.search = cause, !.result = "raised",
                               !.err = <<"Error searching documents", cause>>]]
    /\ UNCHANGED <<indices, store, now, resp, prev, rag>>

\* _create_index_if_not_exists, line 55: the remote exists call
ExistsCall(c) ==
    /\ callers[c].pc = "exists"
    /\ \E remoteOk \in BOOLEAN :
          callers' = [callers EXCEPT ![c] =
              IF ~remoteOk
              THEN EndEnsure([@ EXCEPT !.exists = "error"], EnsureFailure("opensearch"))
              ELSE IF IndexExists
              THEN EndEnsure([@ EXCEPT !.exists = "yes"], NoFailure)
              ELSE [@ EXCEPT !.exists = "no", !.pc = "create"]]
    /\ UNCHANGED <<indices, store, now, resp, prev, rag>>

\* _create_index_if_not_exists, line 115: the remote create call; the store
\* rejects the creation of an index that exists
CreateCall(c) ==
    /\ callers[c].pc = "create"
    /\ \E remoteOk \in BOOLEAN :
          IF ~remoteOk
          THEN /\ callers' = [callers EXCEPT ![c] =
                      EndEnsure([@ EXCEPT !.create = "failed"], EnsureFailure("opensearch"))]
               /\ UNCHANGED indices
          ELSE IF IndexExists
          THEN /\ callers' = [callers EXCEPT ![c] =
                      EndEnsure([@ EXCEPT !.create = "already_exists"],
                                EnsureFailure("resource_already_exists_exception"))]
               /\ UNCHANGED indices
          ELSE /\ callers' = [callers EXCEPT ![c] =
                      EndEnsure([@ EXCEPT !.create = "created"], NoFailure)]
               /\ indices' = [n \in {IndexName} |-> RequiredSchema]
    /\ UNCHANGED <<store, now, resp, prev, rag>>

\* A backing store without the index, and no service constructed yet
InitSchema ==
    /\ indices = <<>>
    /\ store = <<>>
    /\ now = 0
    /\ resp = NoResp
    /\ prev = NoResp
    /\ callers = [c \in Callers |-> Idle]
    /\ rag = NoRag

NextSchema ==
    \E c \in Callers :
        StartEnsure(c) \/ StartSearch(c) \/ SearchCall(c) \/ ExistsCall(c) \/ CreateCall(c)

SpecSchema == InitSchema /\ [][NextSchema]_vars

\* C4: a search that finds the index missing returns an empty result, not an
\* error, and when it has returned the index exists with the required schema.
C4_ColdStartSearchHeals ==
    \A c \in Callers :
        (callers[c].op = "search" /\ callers[c].healing /\ callers[c].pc = "done") =>
            /\ callers[c].result = "returned"
            /\ callers[c].hits = <<>>
            /\ IndexExists
            /\ indices[IndexName] = RequiredSchema

\* C5: ensure_schema never fails its caller; it issues no create call when the
\* index exists; and a caller whose create call was rejected because another
\* caller had created the index meanwhile returns normally, one index of the
\* required schema existing.
C5_EnsureSchemaRaceTolerant ==
    \A c \in Callers :
        (callers[c].op = "ensure" /\ callers[c].pc = "done") =>
            /\ callers[c].result = "returned"
            /\ callers[c].exists = "yes" => callers[c].create = "none"
            /\ callers[c].create = "already_exists" =>
                  /\ DOMAIN indices = {IndexName}
                  /\ indices[IndexName] = RequiredSchema

\* two callers of ensure_schema both found the index missing, one created it
\* and the create call of the other was rejected
C5_Witness ==
    \E c, d \in Callers :
        /\ callers[c].op = "ensure" /\ callers[c].pc = "done"
        /\ callers[c].create = "already_exists"
        /\ callers[d].op = "ensure" /\ callers[d].pc = "done"
        /\ callers[d].create = "created"

-----------------------------------------------------------------------------
(* RAG orchestrator (RAGService) and the retrieval its caller does first *)

MaxHistory == 6
MaxDocs == 2

HistoryWindow == 5
PreviewLimit == 200

Roles == {"user", "assistant"}

\* Histories of n turns; the content of a turn tells its position
HistoriesOfLen(n) ==
    { [i \in 1..n |-> [role |-> r[i], content |-> "m" \o ToString(i)]] : r \in [1..n -> Roles] }

Histories == UNION { HistoriesOfLen(n) : n \in 0..MaxHistory }

\* Scores are in hundredths: 250 is the score 2.50.  A candidate may lack its
\* title or its score; a score may be negative or above 1.
CandidateDocs ==
    { [title |-> Some("S3"),  content |-> "object storage", score |-> Some(250), metadata |-> {}],
      [title |-> None,        content |-> "y",              score |-> None,      metadata |-> {"k"}],
      [title |-> Some("EC2"), content |-> "z",              score |-> Some(-50), metadata |-> {}],
      [title |-> Some("IAM"), content |-> "w",              score |-> Some(45),  metadata |-> {}] }

DocSeqs == UNION { [1..n -> CandidateDocs] : n \in 0..MaxDocs }

Causes == {"AccessDeniedException", "ThrottlingException"}

\* dict.get(key, default)
Get(o, default) == IF o = None THEN default ELSE o[1]

Min(a, b) == IF a <= b THEN a ELSE b
Max(a, b) == IF a >= b THEN a ELSE b

\* "\n".join(parts)
RECURSIVE JoinLines(_)
JoinLines(parts) ==
    IF parts = <<>> THEN ""
    ELSE IF Len(parts) = 1 THEN parts[1]
    ELSE parts[1] \o "\n" \o JoinLines(Tail(parts))

\* The candidates by descending score
RECURSIVE ByScore(_)
ByScore(documents) ==
    IF documents = <<>> THEN <<>>
    ELSE LET best == CHOOSE i \in 1..Len(documents) :
                        \A j \in 1..Len(documents) :
                            Get(documents[j].score, 0) <= Get(documents[i].score, 0)
         IN  <<documents[best]>>
             \o ByScore([k \in 1..(Len(documents) - 1) |->
                            IF k < best THEN documents[k] ELSE documents[k + 1]])

RECURSIVE ContextParts(_)
ContextParts(documents) ==
    IF documents = <<>> THEN <<>>
    ELSE << "Documento: " \o Get(documents[1].title, "Sin título"),
            "Contenido: " \o documents[1].content,
            "---" >> \o ContextParts(Tail(documents))

\* _prepare_context re-ranking the candidates it renders
PrepareContextSorted(documents) == JoinLines(ContextParts(ByScore(documents)))

\* _prepare_context
PrepareContext(documents) == JoinLines(ContextParts(documents))

\* str.capitalize() on the roles of the model
Capitalize(role) ==
    CASE role = "user" -> "User"
      [] role = "assistant" -> "Assistant"
      [] OTHER -> role

HistoryParts(turns) ==
    [i \in 1..Len(turns) |-> Capitalize(turns[i].role) \o ": " \o turns[i].content]

\* _prepare_chat_history keeping the first turns instead of the last
PrepareChatHistoryOldest(chat_history) ==
    IF chat_history = <<>> THEN ""
    ELSE JoinLines(HistoryParts(SubSeq(chat_history, 1, Min(Len(chat_history), HistoryWindow))))

\* _prepare_chat_history: chat_history[-5:] rendered
PrepareChatHistory(chat_history) ==
    IF chat_history = <<>> THEN ""
    ELSE JoinLines(HistoryParts(
            SubSeq(chat_history, Max(1, Len(chat_history) - HistoryWindow + 1), Len(chat_history))))

HistoryHeader == "Historial de conversación:"

Instructions ==
    << "Instrucciones:",
       "1. Si encuentras información relevante en el contexto, responde basándote en ella y cita las fuentes",
       "2. Si NO encuentras información específica en el contexto:",
       "   - Reconoce que no tienes esa información específica en tus documentos",
       "   - Si es sobre tecnología de nube/AWS, proporciona una respuesta general útil",
       "   - Sugiere temas relacionados que sí puedes responder basándote en tus documentos",
       "3. Mantén un tono profesional y amigable",
       "4. Sé claro y conciso en tu respuesta",
       "5. Si la pregunta es sobre AWS o tecnologías relacionadas, puedes usar conocimiento general" >>

\* _create_prompt: the lines of the template, each interpolated block being one
\* element; the prompt is their "\n".join
CreatePrompt(question, context, history) ==
    << "",
       "Eres un asistente inteligente especializado en AWS y tecnologías de nube.",
       "",
       IF history # "" THEN HistoryHeader ELSE "",
       history,
       "",
       "Contexto de documentos disponibles:",
       context,
       "",
       "Pregunta del usuario: " \o question,
       "" >> \o Instructions \o << "", "Respuesta:", "" >>

\* _generate_llm_response: the text of the model, or the wrapped failure
GenerateLlmResponse(prompt, remoteOk, cause) ==
    IF remoteOk
    THEN [ok |-> TRUE, value |-> "respuesta", err |-> <<>>]
    ELSE [ok |-> FALSE, value |-> "", err |-> <<"Error calling Bedrock", cause>>]

RECURSIVE TotalScore(_)
TotalScore(documents) ==
    IF documents = <<>> THEN 0
    ELSE Get(documents[1].score, 0) + TotalScore(Tail(documents))

\* round(total / n) to the nearest integer, ties to the even one, as round()
RoundDiv(total, n) ==
    LET q == total \div n
        r == total % n
    IN  IF 2 * r < n THEN q
        ELSE IF 2 * r > n THEN q + 1
        ELSE IF q % 2 = 0 THEN q ELSE q + 1

\* _calculate_confidence without the guard for no documents: a neutral
\* confidence stands for the mean that does not exist
CalculateConfidenceNoGuard(documents) ==
    IF documents = <<>> THEN 50
    ELSE IF TotalScore(documents) >= 100 * Len(documents) THEN 100
    ELSE RoundDiv(TotalScore(documents), Len(documents))

\* _calculate_confidence, in hundredths: round(min(avg_score, 1.0), 2)
CalculateConfidence(documents) ==
    IF documents = <<>> THEN 0
    ELSE IF TotalScore(documents) >= 100 * Len(documents) THEN 100
    ELSE RoundDiv(TotalScore(documents), Len(documents))

\* _prepare_sources citing the candidates by descending score
PrepareSourcesRanked(documents) ==
    LET ranked == ByScore(documents)
    IN  [i \in 1..Len(ranked) |->
            [ title           |-> Get(ranked[i].title, "Sin título"),
              content_preview |-> IF Len(ranked[i].content) > PreviewLimit
                                  THEN SubSeq(ranked[i].content, 1, PreviewLimit) \o "..."
                                  ELSE ranked[i].content,
              score           |-> Get(ranked[i].score, 0),
              metadata        |-> ranked[i].metadata ]]

\* _prepare_sources cutting every content of 200 characters or more
PrepareSourcesCutAtLimit(documents) ==
    [i \in 1..Len(documents) |->
        [ title           |-> Get(documents[i].title, "Sin título"),
          content_preview |-> IF Len(documents[i].content) >= PreviewLimit
                              THEN SubSeq(documents[i].content, 1, PreviewLimit) \o "..."
                              ELSE documents[i].content,
          score           |-> Get(documents[i].score, 0),
          metadata        |-> documents[i].metadata ]]

\* _prepare_sources
PrepareSources(documents) ==
    [i \in 1..Len(documents) |->
        [ title           |-> Get(documents[i].title, "Sin título"),
          content_preview |-> IF Len(documents[i].content) > PreviewLimit
                              THEN SubSeq(documents[i].content, 1, PreviewLimit) \o "..."
                              ELSE documents[i].content,
          score           |-> Get(documents[i].score, 0),
          metadata        |-> documents[i].metadata ]]

\* A call of generate_response by a caller that passes the turns of the
\* history as dicts.  entry: the route the request came by; turns: the Python
\* type of a turn of the history; message: the message field of the request,
\* if any; status and body: the HTTP answer of the route
NewRequest(question, history) ==
    [ pc |-> "retrieve", question |-> question, history |-> history, docs |-> <<>>,
      context |-> "", history_context |-> "", prompt |-> <<>>,
      retrieval |-> "none", generation |-> "none", cause |-> "",
      response |-> None, err |-> <<>>,
      entry |-> "generate_response", turns |-> "dict", payload |-> "json",
      message |-> Some(question), status |-> 0, body |-> <<>> ]

\* generate_response, lines 81-82, answering a failure with a substitute response
RagFailureMasked(r, cause) ==
    [r EXCEPT !.pc = "done",
              !.response = Some([answer |-> "mock", sources |-> <<>>,
                                 confidence |-> 0, timestamp |-> now])]

\* generate_response, lines 81-82: whatever was raised is wrapped and raised
RagFailure(r, cause) ==
    [r EXCEPT !.pc = "failed", !.err = <<"Error generating RAG response">> \o cause]

\* The caller of generate_response retrieves the candidates first (chat: the
\* search_documents call); a failed search is raised to the caller's handler
\* and generate_response is not called
RetrieveFrom(candidates) ==
    /\ rag.pc = "retrieve"
    /\ \/ \E docs \in candidates :
             rag' = [rag EXCEPT !.pc = "assemble", !.retrieval = "ok", !.docs = docs]
       \/ rag' = [rag EXCEPT !.pc = "failed", !.retrieval = "failed",
                             !.err = <<"Error searching documents", "opensearch">>]
    /\ UNCHANGED <<indices, store, now, resp, prev, callers>>

Retrieve == RetrieveFrom(DocSeqs)

\* msg.get("role", "") in _prepare_chat_history (lines 101-102): a dict has
\* get; a ChatMessage, the pydantic model the /chat route of the API parses
\* the turns into, has not, and the call raises AttributeError
TurnsHaveGet(turns) == turns = "dict"

\* generate_response, lines 57-63: context, history and prompt
Assemble ==
    /\ rag.pc = "assemble"
    /\ LET context == PrepareContext(rag.docs)
           history_context == PrepareChatHistory(rag.history)
       IN  rag' = IF rag.history # <<>> /\ ~TurnsHaveGet(rag.turns)
                  THEN RagFailure(rag, <<"AttributeError">>)
                  ELSE [rag EXCEPT !.pc = "generate",
                                   !.context = context,
                                   !.history_context = history_context,
                                   !.prompt = CreatePrompt(rag.question, context,
                                                           history_context)]
    /\ UNCHANGED <<indices, store, now, resp, prev, callers>>

\* generate_response, line 66: the generation call
Generate ==
    /\ rag.pc = "generate"
    /\ \E remoteOk \in BOOLEAN, cause \in Causes :
          LET out == GenerateLlmResponse(rag.prompt, remoteOk, cause)
          IN  rag' = IF out.ok
                     THEN [rag EXCEPT !.pc = "finish", !.generation = out.value]
                     ELSE RagFailure([rag EXCEPT !.generation = "failed", !.cause = cause], out.err)
    /\ UNCHANGED <<indices, store, now, resp, prev, callers>>

\* generate_response, lines 69-79: confidence, sources and the response
Finish ==
    /\ rag.pc = "finish"
    /\ rag' = [rag EXCEPT !.pc = "done",
                          !.response = Some([ answer     |-> rag.generation,
                                              sources    |-> PrepareSources(rag.docs),
                                              confidence |-> CalculateConfidence(rag.docs),
                                              timestamp  |-> now ])]
    /\ UNCHANGED <<indices, store, now, resp, prev, callers>>

InitRag ==
    /\ indices = [n \in {IndexName} |-> RequiredSchema]
    /\ store = <<>>
    /\ now = 0
    /\ resp = NoResp
    /\ prev = NoResp
    /\ callers = NoCallers
    /\ rag \in { NewRequest("pregunta", h) : h \in Histories }

NextRag == Retrieve \/ Assemble \/ Generate \/ Finish

SpecRag == InitRag /\ [][NextRag]_vars

\* One chat request over candidates whose content has every length from 0 to
\* MaxContent characters: the character at position i is the last digit of i
MaxContent == 203

Digits == "1234567890"

\* k copies of s
RECURSIVE Repeat(_, _)
Repeat(s, k) ==
    IF k = 0 THEN ""
    ELSE LET half == Repeat(s, k \div 2)
         IN  half \o half \o (IF k % 2 = 1 THEN s ELSE "")

Text(n) == Repeat(Digits, n \div 10) \o SubSeq(Digits, 1, n % 10)

LongDocs ==
    { [title |-> t, content |-> Text(n), score |-> Some(80), metadata |-> {}] :
        t \in Opt({"S3"}), n \in 0..MaxContent }

LongDocSeqs == {<<>>} \cup { <<d>> : d \in LongDocs }

RetrieveLong == RetrieveFrom(LongDocSeqs)

InitCite ==
    /\ indices = [n \in {IndexName} |-> RequiredSchema]
    /\ store = <<>>
    /\ now = 0
    /\ resp = NoResp
    /\ prev = NoResp
    /\ callers = NoCallers
    /\ rag = NewRequest("pregunta", <<>>)

NextCite == RetrieveLong \/ Assemble \/ Generate \/ Finish

SpecCite == InitCite /\ [][NextCite]_vars

-----------------------------------------------------------------------------
(* Search of the document index, reached from the entry points that take   *)
(* max_results from the request                                             *)

Queries == {"b", "c"}

\* The values of max_results a request may carry
Limits == {-1, 0, 1, 1000000}

EntryPoints == {"chat", "search", "lambda_chat"}

\* POST /chat: request.max_results or 5
ChatMaxResults(requested) ==
    IF requested = None \/ requested[1] = 0 THEN 5 ELSE requested[1]

\* GET /documents/search: max_results: int = 10
SearchMaxResults(requested) == Get(requested, 10)

\* the Lambda /chat route: payload.get('max_results', 5)
LambdaMaxResults(requested) == Get(requested, 5)

MaxResultsOf(entry, requested) ==
    CASE entry = "chat" -> ChatMaxResults(requested)
      [] entry = "search" -> SearchMaxResults(requested)
      [] entry = "lambda_chat" -> LambdaMaxResults(requested)

\* Whether the text holds the query (the match of a field)
Contains(text, query) ==
    \E i \in 1..(Len(text) - Len(query) + 1) : SubSeq(text, i, i + Len(query) - 1) = query

FieldScore(text, query) == IF Contains(text, query) THEN 100 ELSE 0

\* multi_match, best_fields over title^2 and content, in hundredths
Score(rec, query) == Max(2 * FieldScore(rec.title, query), FieldScore(rec.content, query))

\* search_body with the store's own default size in place of max_results
SearchBodyDefaultSize(query, max_results) == [size |-> 10, query |-> query]

\* search_body
SearchBody(query, max_results) == [size |-> max_results, query |-> query]

\* The answers the store may give to a search: the matching records of
\* highest score, at most size of them, by non-increasing score; records of
\* equal score come in any order
Rankings(s, body) ==
    LET matching == {i \in DOMAIN s : Score(s[i], body.query) > 0}
        n == Max(0, Min(body.size, Cardinality(matching)))
    IN  { h \in [1..n -> matching] :
            /\ \A j, k \in 1..n : j < k =>
                  /\ h[j] # h[k]
                  /\ Score(s[h[j]], body.query) >= Score(s[h[k]], body.query)
            /\ \A i \in matching : (\A k \in 1..n : h[k] # i) =>
                  \A k \in 1..n : Score(s[i], body.query) <= Score(s[h[k]], body.query) }

\* hits.hits of the store's answer
StoreHits(s, body, ranking) ==
    [k \in 1..Len(ranking) |->
        [ _id     |-> ranking[k],
          _score  |-> Score(s[ranking[k]], body.query),
          _source |-> [ title      |-> s[ranking[k]].title,
                        content    |-> s[ranking[k]].content,
                        metadata   |-> s[ranking[k]].metadata,
                        created_at |-> s[ranking[k]].created_at ] ]]

\* search_documents, lines 206-215: one result per hit
SearchResults(hits) ==
    [k \in 1..Len(hits) |->
        [ id         |-> hits[k]._id,
          title      |-> hits[k]._source.title,
          content    |-> hits[k]._source.content,
          metadata   |-> hits[k]._source.metadata,
          score      |-> hits[k]._score,
          created_at |-> hits[k]._source.created_at ]]

SearchResp(ok, entry, requested, max_results, body, results, err) ==
    [ op |-> "search", ok |-> ok, id |-> "", title |-> "", content |-> "", err |-> err,
      entry |-> entry, requested |-> requested, max_results |-> max_results,
      size |-> body.size, results |-> results ]

\* search_documents: the caller's results after one call.  The store rejects
\* a negative size; a missing index is answered with no results (lines 221-226)
SearchOutcome(entry, requested, query, remoteOk, ranking) ==
    LET max_results == MaxResultsOf(entry, requested)
        body == SearchBody(query, max_results)
    IN  IF ~IndexExists
        THEN SearchResp(TRUE, entry, requested, max_results, body, <<>>, <<>>)
        ELSE IF ~remoteOk \/ body.size < 0
        THEN SearchResp(FALSE, entry, requested, max_results, body, <<>>,
                        <<"Error searching documents", "opensearch">>)
        ELSE SearchResp(TRUE, entry, requested, max_results, body,
                        SearchResults(StoreHits(store, body, ranking)), <<>>)

SearchFew ==
    \E entry \in EntryPoints, requested \in Opt(Limits), query \in Queries,
       remoteOk \in BOOLEAN :
        \E ranking \in Rankings(store, SearchBody(query, MaxResultsOf(entry, requested))) :
            /\ resp' = SearchOutcome(entry, requested, query, remoteOk, ranking)
            /\ prev' = NoResp
            /\ UNCHANGED <<indices, store, now, callers, rag>>

NextSearch == IndexFew \/ UpdateFew \/ DeleteFew \/ SearchFew

SpecSearch == InitTimed /\ [][NextSearch]_vars

-----------------------------------------------------------------------------
(* Remote calls of one operation, one attempt per step.  The index-store    *)
(* client is built with max_retries = 3 and retry_on_timeout = True; the    *)
(* embedding and generation clients are called once.                         *)

MaxRetries == 3

Operations == {"index", "update", "search", "delete", "generate", "chat"}

\* The remote calls of an operation, in the order the code makes them
Plan(op) ==
    CASE op = "index"    -> <<"embedding", "store">>
      [] op = "update"   -> <<"embedding", "store">>
      [] op = "search"   -> <<"store">>
      [] op = "delete"   -> <<"store">>
      [] op = "generate" -> <<"generation">>
      [] op = "chat"     -> <<"store", "generation">>

\* How an attempt may end
AttemptOutcomes == {"ok", "timeout", "connection", "rejected"}

\* The client re-issuing every failed call, a rejected one included
RetriedAlways(provider, outcome) == provider = "store" /\ outcome # "ok"

\* Whether the client re-issues a call that ended this way
Retried(provider, outcome) ==
    provider = "store" /\ outcome \in {"timeout", "connection"}

\* The message prefix an operation wraps around the failure of a call
Wrapped(op, provider) ==
    CASE op = "index"  -> IF provider = "embedding"
                          THEN <<"Error indexing document", "Error getting embedding", "bedrock">>
                          ELSE <<"Error indexing document", "opensearch">>
      [] op = "update" -> IF provider = "embedding"
                          THEN <<"Error updating document", "Error getting embedding", "bedrock">>
                          ELSE <<"Error updating document", "opensearch">>
      [] op = "search" -> <<"Error searching documents", "opensearch">>
      [] op = "delete" -> <<"Error deleting document", "opensearch">>
      [] op = "generate" -> <<"Error generating RAG response", "Error calling Bedrock", "bedrock">>
      [] op = "chat"   -> IF provider = "store"
                          THEN <<"Error searching documents", "opensearch">>
                          ELSE <<"Error generating RAG response", "Error calling Bedrock", "bedrock">>

\* A caller before its operation: log[k] lists how the attempts of the k-th
\* call of the plan ended; kind is the class of the exception raised to the
\* caller and cause what the failed attempt ended with (the text after the
\* prefix of the message)
IdleCall ==
    [op |-> "none", status |-> "idle", k |-> 0, log |-> <<>>, err |-> <<>>,
     kind |-> "none", cause |-> "none"]

\* raise Exception(f"Error ...: {str(e)}"): whatever the class of the failure
\* caught, a plain Exception is raised in its place
RaisedKind(op, provider, outcome) == "Exception"

StartOp ==
    /\ callers[1].status = "idle"
    /\ \E op \in Operations :
          callers' = << [IdleCall EXCEPT !.op = op, !.status = "running", !.k = 1,
                                         !.log = [j \in 1..Len(Plan(op)) |-> <<>>]] >>
    /\ UNCHANGED <<indices, store, now, resp, prev, rag>>

\* One attempt of the current call
IssueCall ==
    /\ callers[1].status = "running"
    /\ \E outcome \in AttemptOutcomes :
          LET c == callers[1]
              provider == Plan(c.op)[c.k]
              log == [c.log EXCEPT ![c.k] = Append(@, outcome)]
          IN  callers' =
                IF outcome = "ok"
                THEN IF c.k = Len(Plan(c.op))
                     THEN << [c EXCEPT !.log = log, !.status = "returned"] >>
                     ELSE << [c EXCEPT !.log = log, !.k = c.k + 1] >>
                ELSE IF Retried(provider, outcome) /\ Len(log[c.k]) <= MaxRetries
                THEN << [c EXCEPT !.log = log] >>
                ELSE << [c EXCEPT !.log = log, !.status = "raised",
                                  !.err = Wrapped(c.op, provider),
                                  !.kind = RaisedKind(c.op, provider, outcome),
                                  !.cause = outcome] >>
    /\ UNCHANGED <<indices, store, now, resp, prev, rag>>

\* The caller has its result or its error; the next operation may start
EndOp ==
    /\ callers[1].status \in {"returned", "raised"}
    /\ callers' = <<IdleCall>>
    /\ UNCHANGED <<indices, store, now, resp, prev, rag>>

InitRemote ==
    /\ indices = [n \in {IndexName} |-> RequiredSchema]
    /\ store = <<>>
    /\ now = 0
    /\ resp = NoResp
    /\ prev = NoResp
    /\ callers = <<IdleCall>>
    /\ rag = NoRag

NextRemote == StartOp \/ IssueCall \/ EndOp

SpecRemote == InitRemote /\ [][NextRemote]_vars

-----------------------------------------------------------------------------
(* The /chat routes: POST /chat of the API (main.py) and the /chat route of *)
(* the simple Lambda handler, one request each, around generate_response    *)

MaxTurns == 2

ChatEntries == {"chat", "lambda_chat"}

\* The message field of a request: absent, empty or a question
Messages == {None, Some(""), Some("pregunta")}

\* The body of a request: JSON, or text that is not JSON
Payloads == {"json", "malformed"}

\* The turns of a request's history as the route hands them to
\* generate_response: the API parses them into ChatMessage objects
\* (chat_models.py 5-12), the Lambda route passes the dicts of the JSON body
TurnsOf(entry) == IF entry = "chat" THEN "ChatMessage" ELSE "dict"

ChatRequests ==
    { [NewRequest("", h) EXCEPT !.pc = "validate", !.entry = e, !.turns = TurnsOf(e),
                                !.message = m, !.payload = p] :
        e \in ChatEntries, m \in Messages, p \in Payloads,
        h \in UNION { HistoriesOfLen(n) : n \in 0..MaxTurns } }

\* The answer of the framework to a body that does not fit the request model
ValidationError(field) == [status |-> 422, body |-> [detail |-> <<"missing", field>>]]

\* A mock message that keeps the error to itself
MockMessageNoDetails(message, err) ==
    <<"RAG system is not fully configured yet. Mock response for", message>>

\* The Lambda route's message when the RAG workflow raised (line 247)
MockMessage(message, err) ==
    <<"RAG system is not fully configured yet. Mock response for", message,
      "Error details">> \o err

\* POST /chat: the body is parsed into a ChatRequest, whose message is required
ValidateChat ==
    /\ rag.pc = "validate" /\ rag.entry = "chat"
    /\ rag' = IF rag.payload = "malformed"
              THEN [rag EXCEPT !.pc = "answered", !.status = ValidationError("body").status,
                               !.body = ValidationError("body").body]
              ELSE IF rag.message = None
              THEN [rag EXCEPT !.pc = "answered", !.status = ValidationError("message").status,
                               !.body = ValidationError("message").body]
              ELSE [rag EXCEPT !.pc = "retrieve", !.question = rag.message[1]]
    /\ UNCHANGED <<indices, store, now, resp, prev, callers>>

\* the Lambda /chat route, lines 221-226: json.loads and payload.get('message', '')
ParseLambdaChat ==
    /\ rag.pc = "validate" /\ rag.entry = "lambda_chat"
    /\ rag' = IF rag.payload = "malformed"
              THEN [rag EXCEPT !.pc = "answered", !.status = 500,
                               !.body = [message |-> <<"JSONDecodeError">>]]
              ELSE [rag EXCEPT !.pc = "retrieve", !.question = Get(rag.message, "")]
    /\ UNCHANGED <<indices, store, now, resp, prev, callers>>

\* POST /chat, lines 92-100: the ChatResponse, or HTTP 500 with the error text
RespondChat ==
    /\ rag.pc \in {"done", "failed"} /\ rag.entry = "chat"
    /\ rag' = IF rag.pc = "done"
              THEN [rag EXCEPT !.pc = "answered", !.status = 200,
                               !.body = [ message    |-> rag.response[1].answer,
                                          sources    |-> rag.response[1].sources,
                                          confidence |-> rag.response[1].confidence,
                                          timestamp  |-> now ]]
              ELSE [rag EXCEPT !.pc = "answered", !.status = 500,
                               !.body = [detail |-> rag.err]]
    /\ UNCHANGED <<indices, store, now, resp, prev, callers>>

\* the Lambda /chat route, lines 238-262: the RAG response, or the mock
\* response when search or generation raised; status 200 either way
RespondLambdaChat ==
    /\ rag.pc \in {"done", "failed"} /\ rag.entry = "lambda_chat"
    /\ rag' = IF rag.pc = "done"
              THEN [rag EXCEPT !.pc = "answered", !.status = 200,
                               !.body = [ message    |-> rag.response[1].answer,
                                          confidence |-> rag.response[1].confidence,
                                          sources    |-> rag.response[1].sources,
                                          timestamp  |-> rag.response[1].timestamp ]]
              ELSE [rag EXCEPT !.pc = "answered", !.status = 200,
                               !.body = [ message    |-> MockMessage(rag.question, rag.err),
                                          confidence |-> 0,
                                          sources    |-> <<>>,
                                          timestamp  |-> now ]]
    /\ UNCHANGED <<indices, store, now, resp, prev, callers>>

InitChat ==
    /\ indices = [n \in {IndexName} |-> RequiredSchema]
    /\ store = <<>>
    /\ now = 0
    /\ resp = NoResp
    /\ prev = NoResp
    /\ callers = NoCallers
    /\ rag \in ChatRequests

NextChat ==
    \/ ValidateChat \/ ParseLambdaChat
    \/ Retrieve \/ Assemble \/ Generate \/ Finish
    \/ RespondChat \/ RespondLambdaChat

SpecChat == InitChat /\ [][NextChat]_vars

-----------------------------------------------------------------------------
(* Document processor Lambda (document_processor_lambda.py) and the     *)
(* DocumentProcessorService it drives.  In SpecIngest the variable       *)
(* callers holds the one invocation of the Lambda in progress.           *)

MaxRecords == 2

Bucket == "docs"

\* Object keys of the bucket: extensions in either case, an extension that is
\* not supported, a dot in a folder name only, and a name that is all extension
Keys == {"a.txt", "a.PDF", "a.exe", "d.md/a", ".md"}

UpperCase == "ABCDEFGHIJKLMNOPQRSTUVWXYZ"
LowerCase == "abcdefghijklmnopqrstuvwxyz"

\* str.lower() on one character
LowerChar(ch) ==
    IF \E i \in 1..Len(UpperCase) : SubSeq(UpperCase, i, i) = ch
    THEN LET i == CHOOSE i \in 1..Len(UpperCase) : SubSeq(UpperCase, i, i) = ch
         IN  SubSeq(LowerCase, i, i)
    ELSE ch

RECURSIVE Lower(_)
Lower(s) == IF Len(s) = 0 THEN "" ELSE LowerChar(SubSeq(s, 1, 1)) \o Lower(SubSeq(s, 2, Len(s)))

\* str.rfind: the last position of a character, 0 when there is none
RFind(s, ch) ==
    LET at == {i \in 1..Len(s) : SubSeq(s, i, i) = ch}
    IN  IF at = {} THEN 0 ELSE CHOOSE i \in at : \A j \in at : j <= i

\* os.path.splitext(p)[1]: from the last dot of the last path component, unless
\* only dots precede it in that component
SplitExt(p) ==
    LET sep == RFind(p, "/")
        dot == RFind(p, ".")
    IN  IF dot > sep /\ (\E i \in (sep + 1)..(dot - 1) : SubSeq(p, i, i) # ".")
        THEN SubSeq(p, dot, Len(p))
        ELSE ""

\* os.path.basename
Basename(p) == SubSeq(p, RFind(p, "/") + 1, Len(p))

\* The keys of supported_extensions
SupportedExtensions == {".pdf", ".txt", ".docx", ".md"}

\* os.path.splitext(key)[1].lower() of every key of the bucket
ExtensionOfKey == [key \in Keys |-> Lower(SplitExt(key))]

\* _process_s3_file_sync, line 51
FileExtension(key) == ExtensionOfKey[key]

\* A processor that takes every file type
IsSupportedAny(file_extension) == TRUE

\* _process_s3_file_sync, line 53
IsSupported(file_extension) == file_extension \in SupportedExtensions

\* The decoded text of an object of the bucket
ObjectText(key) == "c"

\* _download_and_process_text: get_object and decode, or the call's error
DownloadAndProcessText(key, getOk) ==
    [ ok    |-> getOk,
      value |-> IF getOk THEN ObjectText(key) ELSE "",
      err   |-> IF getOk THEN <<>> ELSE <<"s3", "get_object">>,
      calls |-> <<"get_object">> ]

\* _process_pdf: Textract, and the download when Textract fails
ProcessPdf(key, textractOk, getOk) ==
    IF textractOk
    THEN [ok |-> TRUE, value |-> ObjectText(key), err |-> <<>>,
          calls |-> <<"detect_document_text">>]
    ELSE LET d == DownloadAndProcessText(key, getOk)
         IN  [d EXCEPT !.calls = <<"detect_document_text">> \o d.calls]

\* The processor of an extension (lines 56-58)
ProcessContent(file_extension, key, textractOk, getOk) ==
    IF file_extension = ".pdf"
    THEN ProcessPdf(key, textractOk, getOk)
    ELSE DownloadAndProcessText(key, getOk)

S3Metadata == {"source", "file_size", "last_modified", "file_type", "processed_at"}

\* The remote calls of _index_document_sync
IndexCalls(embedOk) == IF embedOk THEN <<"invoke_model", "index">> ELSE <<"invoke_model">>

\* _process_s3_file_sync: the result or the error raised, the remote calls
\* made and the one of them that failed, the store after the call and what the
\* index call returned
ProcessS3FileSync(key, headOk, textractOk, getOk, embedOk, writeOk) ==
    LET file_extension == FileExtension(key)
        content == ProcessContent(file_extension, key, textractOk, getOk)
        out == IndexOutcome(Basename(key), content.value, Some(S3Metadata), embedOk, writeOk)
        Raised(err, calls, failed) ==
            [ok |-> FALSE, result |-> <<>>, err |-> err, calls |-> calls,
             failed |-> failed, store |-> store, resp |-> NoResp]
    IN  IF ~headOk
        THEN Raised(<<"s3", "head_object">>, <<"head_object">>, "head_object")
        ELSE IF ~IsSupported(file_extension)
        THEN Raised(<<"Unsupported file type", file_extension>>, <<"head_object">>, "none")
        ELSE IF ~content.ok
        THEN Raised(content.err, <<"head_object">> \o content.calls, "get_object")
        ELSE IF ~out.resp.ok
        THEN [Raised(out.resp.err, <<"head_object">> \o content.calls \o IndexCalls(embedOk),
                     IF embedOk THEN "index" ELSE "invoke_model")
                EXCEPT !.resp = out.resp]
        ELSE [ ok     |-> TRUE,
               result |-> [ document_id    |-> out.resp.id,
                            bucket         |-> Bucket,
                            key            |-> key,
                            content_length |-> Len(content.value),
                            metadata       |-> S3Metadata ],
               err    |-> <<>>,
               calls  |-> <<"head_object">> \o content.calls \o IndexCalls(embedOk),
               failed |-> "none",
               store  |-> out.store,
               resp   |-> out.resp ]

\* _process_direct_document_sync: the metadata of the record
DirectMetadata(metadata) ==
    {"processed_at", "source", "content_length"}
        \cup (IF TruthyMeta(metadata) THEN metadata[1] ELSE {})

\* An event record: of S3, of another source, or of a service whose records
\* carry no eventSource field
EventRecords ==
    { [eventSource |-> Some("aws:s3"), s3 |-> Some(k)] : k \in Keys }
        \cup { [eventSource |-> Some("aws:sqs"), s3 |-> None],
               [eventSource |-> None, s3 |-> None] }

\* A direct invocation: the body as JSON (a string or an object), or as a
\* string that is not JSON
DirectRequests ==
    [ payload : Payloads, title : Opt({"", "a"}),
      content : Opt({"", "c"}), metadata : Opt(Metas) ]

NoRequest == [payload |-> "none", title |-> None, content |-> None, metadata |-> None]

\* records: the records of the event read by the loop so far, out of length
IdleInvocation ==
    [ handler |-> "none", pc |-> "idle", length |-> 0, records |-> <<>>, next |-> 1,
      results |-> <<>>, calls |-> <<>>, failed |-> <<>>, request |-> NoRequest,
      status |-> 0, body |-> <<>> ]

\* _create_index_if_not_exists, run by the constructor of OpenSearchService:
\* the index is created when it is missing, unless the call fails (the failure
\* is printed and swallowed)
CreateIndexIfNotExists(ind, createOk) ==
    IF IndexName \in DOMAIN ind \/ ~createOk
    THEN ind
    ELSE [n \in {IndexName} |-> RequiredSchema]

\* lambda_handler, lines 25-30: whatever escapes a handler is answered 500
HandlerError(inv, err) ==
    [inv EXCEPT !.pc = "done", !.status = 500, !.body = [error |-> err]]

\* lambda_handler dispatches on 'Records' and the handler constructs its
\* DocumentProcessorService (lines 18-23, 36, 72).  The records of an event
\* are drawn as the loop reads them
ReceiveEvent ==
    /\ callers.pc \in {"idle", "done"}
    /\ \E createOk \in BOOLEAN :
          indices' = CreateIndexIfNotExists(indices, createOk)
    /\ \/ \E length \in 0..MaxRecords :
             callers' = [IdleInvocation EXCEPT !.handler = "s3", !.pc = "loop",
                                               !.length = length]
       \/ \E request \in DirectRequests :
             callers' = [IdleInvocation EXCEPT !.handler = "direct", !.pc = "validate",
                                               !.request = request]
    /\ resp' = NoResp
    /\ UNCHANGED <<store, now, prev, rag>>

\* handle_s3_event, lines 52-58: the failure of a record becomes its result
RecordFailure(inv, key, calls, err) ==
    [inv EXCEPT !.next = @ + 1,
                !.results = Append(@, [bucket |-> Bucket, key |-> key, error |-> err]),
                !.calls = Append(@, calls)]

\* Whether the remote calls made for one object succeed: head_object,
\* detect_document_text, get_object, invoke_model, index.  A call that is not
\* reached because an earlier one failed is left at TRUE, and get_object fails
\* only where Textract did not deliver the text
S3Outcomes ==
    { o \in [head : BOOLEAN, textract : BOOLEAN, get : BOOLEAN,
             embed : BOOLEAN, write : BOOLEAN] :
        /\ ~o.head => (o.textract /\ o.get /\ o.embed /\ o.write)
        /\ ~o.get => (~o.textract /\ o.embed /\ o.write)
        /\ ~o.embed => o.write }

\* handle_s3_event, lines 39-58: one turn of the loop over the records
ProcessRecord ==
    /\ callers.pc = "loop" /\ callers.next <= callers.length
    /\ \E record \in EventRecords :
         LET read == [callers EXCEPT !.records = Append(@, record)]
         IN
           IF record.eventSource = None
           THEN /\ callers' = HandlerError(read, <<"KeyError", "eventSource">>)
                /\ UNCHANGED <<store, resp>>
           ELSE IF record.eventSource[1] # "aws:s3"
           THEN /\ callers' = [read EXCEPT !.next = @ + 1]
                /\ UNCHANGED <<store, resp>>
           ELSE \E o \in S3Outcomes :
                  LET key == record.s3[1]
                      out == ProcessS3FileSync(key, o.head, o.textract, o.get,
                                               o.embed, o.write)
                      inv == [read EXCEPT !.failed = Append(@, out.failed)]
                  IN  /\ callers' =
                            IF out.ok
                            THEN [inv EXCEPT !.next = @ + 1,
                                             !.results = Append(@, out.result),
                                             !.calls = Append(@, out.calls)]
                            ELSE RecordFailure(inv, key, out.calls, out.err)
                      /\ store' = out.store
                      /\ resp' = out.resp
    /\ UNCHANGED <<indices, now, prev, rag>>

\* handle_s3_event, lines 60-66
ReturnS3Event ==
    /\ callers.pc = "loop" /\ callers.next > callers.length
    /\ callers' = [callers EXCEPT !.pc = "done", !.status = 200,
                                  !.body = [ message |-> <<"Processed", Len(callers.results),
                                                           "documents">>,
                                             results |-> callers.results ]]
    /\ UNCHANGED <<indices, store, now, resp, prev, rag>>

\* A validation that takes an empty title or content
DirectBodyPresent(title, content) == title # None /\ content # None

\* handle_direct_invocation, line 81: both fields present and not empty
DirectBodyValid(title, content) == TruthyStr(title) /\ TruthyStr(content)

\* handle_direct_invocation, lines 75-107
HandleDirectInvocation ==
    /\ callers.pc = "validate"
    /\ LET body == callers.request
       IN  IF body.payload = "malformed"
           THEN /\ callers' = HandlerError(callers, <<"JSONDecodeError">>)
                /\ UNCHANGED <<store, resp>>
           ELSE IF ~DirectBodyValid(body.title, body.content)
           THEN /\ callers' = [callers EXCEPT !.pc = "done", !.status = 400,
                                 !.body = [error |-> <<"title and content are required">>]]
                /\ UNCHANGED <<store, resp>>
           ELSE \E embedOk, writeOk \in BOOLEAN :
                  LET out == IndexOutcome(Get(body.title, ""), Get(body.content, ""),
                                          Some(DirectMetadata(body.metadata)),
                                          embedOk, writeOk)
                  IN  /\ callers' =
                            IF out.resp.ok
                            THEN [callers EXCEPT
                                    !.pc = "done", !.status = 200,
                                    !.calls = <<IndexCalls(embedOk)>>,
                                    !.body = [ message |-> "Document processed successfully",
                                               document_id |-> out.resp.id ]]
                            ELSE [callers EXCEPT
                                    !.pc = "done", !.status = 500,
                                    !.calls = <<IndexCalls(embedOk)>>,
                                    !.body = [error |-> out.resp.err]]
                      /\ store' = out.store
                      /\ resp' = out.resp
    /\ UNCHANGED <<indices, now, prev, rag>>

InitIngest ==
    /\ indices \in {<<>>, [n \in {IndexName} |-> RequiredSchema]}
    /\ store = <<>>
    /\ now = 0
    /\ resp = NoResp
    /\ prev = NoResp
    /\ callers = IdleInvocation
    /\ rag = NoRag

NextIngest == ReceiveEvent \/ ProcessRecord \/ ReturnS3Event \/ HandleDirectInvocation

SpecIngest == InitIngest /\ [][NextIngest]_vars

-----------------------------------------------------------------------------
(* RAG orchestrator: properties *)

Assembled == rag.prompt # <<>>

\* C7: the confidence of a response is within [0.0, 1.0] whatever the scores of
\* the candidates, and exactly 0.0 when there are no candidates.
C7_ConfidenceBounds ==
    rag.pc = "done" =>
        LET confidence == rag.response[1].confidence
        IN  /\ 0 <= confidence /\ confidence <= 100
            /\ rag.docs = <<>> => confidence = 0

\* C8 (as stated): whenever retrieval or generation fails, generate_response
\* ends in a failure of its own kind that preserves the cause, and returns no
\* response.
C8_FailureIsRagError ==
    (rag.retrieval = "failed" \/ rag.generation = "failed") =>
        /\ rag.pc = "failed"
        /\ rag.err[1] = "Error generating RAG response"
        /\ rag.response = None

\* C8 (amended): whenever generation fails, generate_response ends in a failure
\* of its own kind whose message carries the cause, and returns no response; a
\* failed retrieval is raised by the search call of the caller as a search
\* error before generate_response is called, and no response is produced.
C8_GenerationFailureIsRagError ==
    /\ rag.generation = "failed" =>
          /\ rag.pc = "failed"
          /\ rag.err = <<"Error generating RAG response", "Error calling Bedrock", rag.cause>>
          /\ rag.cause \in Causes
          /\ rag.response = None
    /\ rag.retrieval = "failed" =>
          /\ rag.pc = "failed"
          /\ rag.err[1] = "Error searching documents"
          /\ ~Assembled
          /\ rag.response = None

\* the generation call has failed on candidates that were retrieved
C8_Witness ==
    /\ rag.generation = "failed"
    /\ rag.docs # <<>>
    /\ rag.cause = "ThrottlingException"

\* The last min(n, 5) turns of a history, rendered
ExpectedTurns(h) ==
    LET n == Len(h)
        k == IF n < 5 THEN n ELSE 5
    IN  [i \in 1..k |->
            (IF h[n - k + i].role = "user" THEN "User" ELSE "Assistant")
                \o ": " \o h[n - k + i].content]

\* C9: the history block of the prompt is the last min(n, 5) turns in their
\* order, each as "<Role capitalized>: <content>"; an empty history gives an
\* empty block and no history header.
C9_HistoryWindow ==
    Assembled =>
        /\ rag.history_context = JoinLines(ExpectedTurns(rag.history))
        /\ rag.prompt[5] = rag.history_context
        /\ rag.prompt[4] = (IF rag.history = <<>> THEN "" ELSE "Historial de conversación:")
        /\ rag.history = <<>> => rag.history_context = ""

\* a prompt has been assembled from a history of more than 5 turns
C9_Witness ==
    /\ Assembled
    /\ Len(rag.history) > 5
    /\ rag.history_context = "User: m2\nAssistant: m3\nUser: m4\nAssistant: m5\nUser: m6"

\* One block of three lines per candidate, in the order received
ExpectedBlocks(docs) ==
    [k \in 1..(3 * Len(docs)) |->
        LET d == docs[(k + 2) \div 3]
        IN  CASE k % 3 = 1 -> "Documento: " \o (IF d.title = None THEN "Sin título" ELSE d.title[1])
              [] k % 3 = 2 -> "Contenido: " \o d.content
              [] OTHER -> "---"]

\* C10: the document block of the prompt holds one block per candidate, in the
\* order the candidates were received, whatever their scores.
C10_RankingOrderPreserved ==
    Assembled =>
        /\ rag.context = JoinLines(ExpectedBlocks(rag.docs))
        /\ rag.prompt[8] = rag.context

\* a prompt has been assembled from two candidates received in ascending score
C10_Witness ==
    /\ Assembled
    /\ Len(rag.docs) = 2
    /\ rag.docs[1].score = Some(45)
    /\ rag.docs[2].score = Some(250)
    /\ rag.context = "Documento: IAM\nContenido: w\n---\nDocumento: S3\nContenido: object storage\n---"


\* C11: the preview of a citation is the first 200 characters of the content
\* followed by the marker "..." when the content is longer than 200
\* characters, and the whole content, without marker, when it has 200
\* characters or fewer (exactly 200 and none included).
C11_PreviewTruncation ==
    (rag.pc = "done") =>
        \A i \in 1..Len(rag.docs) :
            LET content == rag.docs[i].content
                preview == rag.response[1].sources[i].content_preview
            IN  IF Len(content) > 200
                THEN /\ Len(preview) = 203
                     /\ \A k \in 1..200 : SubSeq(preview, k, k) = SubSeq(content, k, k)
                     /\ SubSeq(preview, 201, 203) = "..."
                ELSE preview = content

C11_Witness ==
    /\ rag.pc = "done"
    /\ Len(rag.docs) = 1
    /\ Len(rag.docs[1].content) = 201
    /\ Len(rag.response[1].sources[1].content_preview) = 203

\* One citation per candidate, in retrieval order, with the candidate's score
\* (0 when it has none) and metadata, a candidate without title being cited
\* under the title given
CitationsMatch(untitled) ==
    LET sources == rag.response[1].sources
    IN  /\ Len(sources) = Len(rag.docs)
        /\ \A i \in 1..Len(rag.docs) :
              /\ sources[i].score = (IF rag.docs[i].score = None THEN 0 ELSE rag.docs[i].score[1])
              /\ sources[i].metadata = rag.docs[i].metadata
              /\ sources[i].title = (IF rag.docs[i].title = None THEN untitled
                                     ELSE rag.docs[i].title[1])

\* C12 as claimed: the sources of a response are one citation per candidate, in
\* retrieval order, each with the candidate's score and metadata; a candidate
\* with no title is cited with the title "Untitled".
C12_CitationsUntitled == (rag.pc = "done") => CitationsMatch("Untitled")

\* C12: the sources of a response are one citation per candidate, in retrieval
\* order, each with the candidate's score (0 when it has none) and metadata; a
\* candidate with no title is cited with the title "Sin título".
C12_CitationsSinTitulo == (rag.pc = "done") => CitationsMatch("Sin título")

\* a response citing an untitled candidate without score after a titled one
C12_Witness ==
    /\ rag.pc = "done"
    /\ Len(rag.docs) = 2
    /\ rag.docs[1].score = Some(45)
    /\ rag.docs[2].title = None
    /\ rag.response[1].sources[1].title = "IAM"
    /\ rag.response[1].sources[2].title = "Sin título"
    /\ rag.response[1].sources[2].metadata = {"k"}

\* The step is a successful update_document call
UpdateStep == resp'.op = "update" /\ resp'.ok /\ now' = now

ReindexStep ==
    /\ IndexOk(resp') /\ now' = now
    /\ resp'.id \in DOMAIN store
    /\ store[resp'.id].title = resp'.title
    /\ store[resp'.id].content = resp'.content

\* C14: indexing a (title, content) that is already stored refreshes updated_at
\* and leaves created_at at the value of the first write.
C14_CreatedAtKept ==
    [][ ReindexStep =>
          /\ store'[resp'.id].updated_at = now
          /\ store'[resp'.id].created_at = store[resp'.id].created_at ]_vars

\* C15 as claimed: a retrieval whose max_results is absent, zero or negative
\* runs with the default 5 instead of failing, and a value above the sanity
\* bound (1000000 here) is not the size the index search is run with.
C15_MaxResultsPolicy ==
    (resp.op = "search") =>
        /\ (resp.requested = None \/ resp.requested[1] <= 0) => resp.size = 5
        /\ resp.size < 1000000

\* C16: a successful search(query, limit) returns at most limit candidates, by
\* non-increasing score, each of them a record the store holds, with the
\* fields the store holds for it.
C16_SearchResults ==
    (resp.op = "search" /\ resp.ok) =>
        LET results == resp.results
        IN  /\ Len(results) <= resp.max_results
            /\ \A j, k \in 1..Len(results) : j < k =>
                  /\ results[j].score >= results[k].score
                  /\ results[j].id # results[k].id
            /\ \A k \in 1..Len(results) :
                  /\ results[k].id \in DOMAIN store
                  /\ results[k].title = store[results[k].id].title
                  /\ results[k].content = store[results[k].id].content
                  /\ results[k].metadata = store[results[k].id].metadata

\* a search of limit 1 answered with the better of two matching records
C16_Witness ==
    /\ resp.op = "search" /\ resp.ok
    /\ resp.max_results = 1
    /\ Len(resp.results) = 1
    /\ resp.results[1].score = 200
    /\ \E i \in DOMAIN store : i # resp.results[1].id /\ store[i].content = "bc"
                                /\ store[i].title = "a"

\* a search answered with two records of different scores
C16_WitnessOrdered ==
    /\ resp.op = "search" /\ resp.ok
    /\ Len(resp.results) = 2
    /\ resp.results[1].score = 200
    /\ resp.results[2].score = 100

\* C17: delete(id) reports success (and the endpoint answers 200) only when
\* the store held the id and removed it: a rejected or failed delete, an
\* absent id included, is an error to the caller (500 at the endpoint), and
\* after a successful delete no record with that id is in the store.
C17_DeleteConfirmed ==
    /\ [](resp.op = "delete" =>
            /\ DeleteEndpoint(resp).status = 200 <=> resp.ok
            /\ resp.ok => resp.id \notin DOMAIN store)
    /\ [][ resp'.op = "delete" =>
            /\ resp'.ok =>
                  /\ resp'.id \in DOMAIN store
                  /\ DOMAIN store' = DOMAIN store \ {resp'.id}
                  /\ \A i \in DOMAIN store' : store'[i] = store[i]
            /\ ~resp'.ok =>
                  /\ DeleteEndpoint(resp').status = 500
                  /\ store' = store ]_vars

\* a delete answered with success that removed one of two records
C17_Witness ==
    /\ resp.op = "delete" /\ resp.ok
    /\ DeleteEndpoint(resp).status = 200
    /\ resp.id = "md5:ac"
    /\ DOMAIN store = {"md5:abc"}

\* C18 as claimed: every remote call of an operation (index store, embedding
\* or generation) is attempted at most once, and the operation that a call
\* failed for has raised.
C18_NoRetry ==
    \A k \in 1..Len(callers[1].log) :
        /\ Len(callers[1].log[k]) <= 1
        /\ (Len(callers[1].log[k]) = 1 /\ callers[1].log[k][1] # "ok")
              => callers[1].status = "raised"

\* C18: an embedding or generation call is attempted once per operation; an
\* index-store call is re-issued by its client only after a timeout or a
\* connection failure, at most 3 times; every other failure, and the failure
\* of the last attempt, is raised to the caller wrapped in the operation's
\* message, and no later call of the operation is made.
C18_RetryOnlyByStoreClient ==
    LET c == callers[1]
    IN  \A k \in 1..Len(c.log) :
          LET attempts == c.log[k]
              provider == Plan(c.op)[k]
          IN  /\ provider \in {"embedding", "generation"} => Len(attempts) <= 1
              /\ provider = "store" => Len(attempts) <= 1 + 3
              /\ \A a \in 1..(Len(attempts) - 1) : attempts[a] \in {"timeout", "connection"}
              /\ k < c.k => (attempts # <<>> /\ attempts[Len(attempts)] = "ok")
              /\ k > c.k => attempts = <<>>
              /\ (k = c.k /\ attempts # <<>> /\ attempts[Len(attempts)] # "ok")
                    => \/ c.status = "raised" /\ c.err = Wrapped(c.op, provider)
                       \/ /\ c.status = "running" /\ provider = "store"
                          /\ attempts[Len(attempts)] \in {"timeout", "connection"}
                          /\ Len(attempts) <= 3
              /\ c.status = "raised" => (k = c.k => attempts # <<>> /\ attempts[Len(attempts)] # "ok")

\* an index operation whose store write timed out and was answered at the
\* second attempt
C18_Witness ==
    /\ callers[1].op = "index"
    /\ callers[1].status = "returned"
    /\ callers[1].log = << <<"ok">>, <<"timeout", "ok">> >>

\* What has happened in a chat request so far
Retrieved == rag.retrieval = "ok"
Generated == rag.generation \notin {"none", "failed"}
Responded == rag.response # None

\* C19: in one chat request the prompt is assembled only after retrieval
\* returned, generation is called only on an assembled prompt, and confidence,
\* citations and timestamp exist only after generation returned; after a
\* failed step no later step runs: the request stays as the failure left it.
C19_StepsOrdered ==
    /\ []( /\ Assembled => Retrieved
           /\ rag.generation # "none" => Assembled
           /\ Responded => (Generated /\ rag.response[1].answer = rag.generation)
           /\ rag.retrieval = "failed" =>
                 (~Assembled /\ rag.generation = "none" /\ ~Responded /\ rag.pc = "failed")
           /\ rag.generation = "failed" => (~Responded /\ rag.pc = "failed") )
    /\ [][ /\ rag.pc = "failed" => rag' = rag
           /\ ~Retrieved => (rag'.prompt = <<>> /\ rag'.generation = "none")
           /\ ~Assembled => rag'.generation = "none"
           /\ ~Generated => rag'.response = None ]_vars

\* a request answered after retrieval, assembly and generation
C19_Witness ==
    /\ rag.pc = "done"
    /\ Retrieved /\ Assembled /\ Generated /\ Responded
    /\ Len(rag.docs) = 2
    /\ Len(rag.response[1].sources) = 2

\* C20: when two callers have indexed the same (title, content) concurrently,
\* whatever the interleaving of their embedding and write steps, both have
\* the same id, the store holds exactly one record of the pair, under that
\* id, and its fields are those written by the caller whose write the store
\* applied last.
C20_ConcurrentIndexLastWriteWins ==
    \A v, w \in Writers :
        ( /\ v # w
          /\ IndexOk(callers[v].result) /\ IndexOk(callers[w].result)
          /\ callers[v].title = callers[w].title
          /\ callers[v].content = callers[w].content
          /\ callers[v].seq < callers[w].seq )
        => /\ callers[v].result.id = callers[w].result.id
           /\ {i \in DOMAIN store : /\ store[i].title = callers[w].title
                                     /\ store[i].content = callers[w].content}
                = {callers[w].result.id}
           /\ store[callers[w].result.id] = callers[w].body

\* both callers indexed ('a', 'c'); caller 1 built its body later (time 1, with
\* metadata) but the store applied its write first, so the record is caller 2's
C20_Witness ==
    /\ IndexOk(callers[1].result) /\ IndexOk(callers[2].result)
    /\ callers[1].doc_id = "md5:ac" /\ callers[2].doc_id = "md5:ac"
    /\ callers[1].seq = 1 /\ callers[2].seq = 2
    /\ callers[1].body.created_at = 1 /\ callers[2].body.created_at = 0
    /\ callers[1].body.metadata = {"k"}
    /\ store["md5:ac"].metadata = {}
    /\ store["md5:ac"].created_at = 0

\* C21: when no candidates are retrieved and generation succeeds, the
\* generation call was made on a prompt whose document block is empty, and
\* the response carries the generated answer, sources [] and confidence 0.0.
C21_EmptyRetrievalResponse ==
    /\ (rag.docs = <<>> /\ Retrieved /\ Assembled) =>
          (rag.context = "" /\ rag.prompt[8] = "")
    /\ (rag.docs = <<>> /\ Retrieved /\ Generated) =>
          /\ rag.pc \in {"finish", "done"}
          /\ rag.pc = "done" =>
                /\ Responded
                /\ rag.response[1].sources = <<>>
                /\ rag.response[1].confidence = 0
                /\ rag.response[1].answer = rag.generation
                /\ rag.response[1].answer # ""

\* a response to a request with history for which nothing was retrieved
C21_Witness ==
    /\ rag.pc = "done"
    /\ Retrieved /\ rag.docs = <<>>
    /\ Len(rag.history) = 2
    /\ rag.response[1].answer = "respuesta"
    /\ rag.response[1].sources = <<>>
    /\ rag.response[1].confidence = 0

\* The body of an answer carries message, sources (a list), confidence (a
\* number) and timestamp
ChatBodyComplete(body) ==
    /\ DOMAIN body = {"message", "sources", "confidence", "timestamp"}
    /\ DOMAIN body.sources = 1..Len(body.sources)
    /\ body.confidence \in Int

\* C22: a request to POST /chat with a message, with or without a history of
\* {role, content} turns, whose search returned and whose generation did not
\* fail, is answered with status 200 and a body carrying message, sources,
\* confidence and timestamp.
C22_ChatAnswered ==
    ( /\ rag.pc = "answered" /\ rag.entry = "chat"
      /\ rag.payload = "json" /\ rag.message = <<"pregunta">>
      /\ Retrieved /\ rag.generation # "failed" )
    => (rag.status = 200 /\ ChatBodyComplete(rag.body))

\* C23 as claimed, for the chat routes: a request without message is answered
\* with status 400 and a body with an 'error' key, and no search and no
\* generation was made for it.
C23_MissingFieldRejected ==
    (rag.pc = "answered" /\ rag.payload = "json" /\ rag.message = None) =>
        /\ rag.status = 400
        /\ "error" \in DOMAIN rag.body
        /\ rag.retrieval = "none"
        /\ rag.generation = "none"

\* C24 as claimed: the failure an operation raises is of the kind
\* TimeoutError exactly when the remote call that failed exceeded its time
\* budget, whatever the operation.
C24_TimeoutKind ==
    (callers[1].status = "raised") =>
        (callers[1].kind = "TimeoutError" <=> callers[1].cause = "timeout")

\* C25 as claimed: two successive successful index calls whose (title,
\* content) pairs differ return two distinct ids and leave two records in the
\* store, one for each pair.
C25_DistinctPairsDistinctRecords ==
    (IndexOk(prev) /\ IndexOk(resp) /\ ~SamePair(prev, resp)) =>
        /\ prev.id # resp.id
        /\ {prev.id, resp.id} \subseteq DOMAIN store
        /\ store[prev.id].title = prev.title /\ store[prev.id].content = prev.content
        /\ store[resp.id].title = resp.title /\ store[resp.id].content = resp.content

\* C26: a search whose remote call failed for another reason than a missing
\* index raises an error carrying the cause, never returns a result, and makes
\* no exists or create call; the step in which the call fails leaves the
\* indices as they are.
C26_SearchFailurePropagates ==
    /\ [](\A c \in Callers :
            (callers[c].op = "search" /\ callers[c].search = "opensearch") =>
                /\ callers[c].pc = "done"
                /\ callers[c].result = "raised"
                /\ callers[c].err = <<"Error searching documents", "opensearch">>
                /\ ~callers[c].healing
                /\ callers[c].exists = "none" /\ callers[c].create = "none")
    /\ [][ \A c \in Callers :
            (callers'[c].search = "opensearch" /\ callers[c].search # "opensearch")
                => indices' = indices ]_vars

\* a search raised for an opensearch failure while another caller's
\* ensure_index_exists created the index
C26_Witness ==
    \E c, d \in Callers :
        /\ c # d
        /\ callers[c].op = "search" /\ callers[c].search = "opensearch"
        /\ callers[c].result = "raised"
        /\ callers[d].op = "ensure" /\ callers[d].create = "created"
        /\ IndexExists

\* The error text ends the message
EndsWith(message, err) ==
    /\ Len(message) > Len(err)
    /\ SubSeq(message, Len(message) - Len(err) + 1, Len(message)) = err

\* C28: when the search or the generation of a request to the Lambda /chat
\* route raised, the route answers with status 200, confidence 0.0, no sources
\* and a mock message that quotes the question and ends with the error text;
\* and once the RAG workflow raised, the only step left is that answer: no
\* search and no generation is attempted again.
C28_LambdaChatNeverFails ==
    /\ []( ( /\ rag.entry = "lambda_chat" /\ rag.pc = "answered"
             /\ (rag.retrieval = "failed" \/ rag.generation = "failed") )
           => /\ rag.status = 200
              /\ DOMAIN rag.body = {"message", "confidence", "sources", "timestamp"}
              /\ rag.body.confidence = 0
              /\ rag.body.sources = <<>>
              /\ rag.body.message[2] = rag.question
              /\ rag.err # <<>> /\ EndsWith(rag.body.message, rag.err) )
    /\ [][ (rag.entry = "lambda_chat" /\ rag.pc = "failed")
            => /\ rag'.pc = "answered"
               /\ rag'.retrieval = rag.retrieval
               /\ rag'.generation = rag.generation
               /\ rag'.docs = rag.docs ]_vars

\* a mock answer to a question with history whose generation raised
C28_Witness ==
    /\ rag.entry = "lambda_chat" /\ rag.pc = "answered"
    /\ rag.question = "pregunta"
    /\ rag.generation = "failed" /\ rag.retrieval = "ok"
    /\ Len(rag.history) = 2
    /\ rag.status = 200
    /\ rag.body.confidence = 0

\* The records of an event whose eventSource is aws:s3, in order
S3Records(records) == SelectSeq(records, LAMBDA r : r.eventSource = Some("aws:s3"))

\* One result per aws:s3 record, in record order, each a success entry or an
\* entry with an 'error' field
OneResultPerS3Record(records, results) ==
    /\ Len(results) = Len(S3Records(records))
    /\ \A j \in 1..Len(results) :
          /\ results[j].key = S3Records(records)[j].s3[1]
          /\ ("document_id" \in DOMAIN results[j]) # ("error" \in DOMAIN results[j])

\* C27 as claimed: whatever the records of an event, handle_s3_event answers
\* with status 200 and exactly one result per record whose eventSource is
\* aws:s3, in record order; the records of other sources are skipped and a
\* failure on one record does not keep the later ones from being processed.
C27_OneResultPerRecord ==
    (callers.handler = "s3" /\ callers.pc = "done") =>
        /\ callers.status = 200
        /\ OneResultPerS3Record(callers.records, callers.body.results)

\* A direct invocation that has been answered and whose body could be read
DirectAnswered ==
    callers.handler = "direct" /\ callers.pc = "done" /\ callers.request.payload # "malformed"

\* C29: a direct invocation whose title or content is missing or empty is
\* answered 400 with an 'error' body, without any embedding call or index
\* write; one whose indexing failed is answered 500 with an 'error' body; and
\* an answer 200 carries the document_id of a record that the store holds with
\* the request's title and content.  A step that ends a direct invocation
\* with another status than 200 leaves the store as it was.
C29_DirectValidatesBeforeWriting ==
    /\ [](DirectAnswered =>
            LET title == callers.request.title
                content == callers.request.content
                missing == ~TruthyStr(title) \/ ~TruthyStr(content)
            IN  /\ missing =>
                      /\ callers.status = 400
                      /\ DOMAIN callers.body = {"error"}
                      /\ callers.calls = <<>>
                      /\ resp = NoResp
                /\ (~missing /\ ~resp.ok) =>
                      /\ callers.status = 500
                      /\ DOMAIN callers.body = {"error"}
                      /\ callers.body.error = resp.err
                /\ callers.status = 200 =>
                      /\ ~missing /\ IndexOk(resp)
                      /\ callers.body.document_id = resp.id
                      /\ resp.id \in DOMAIN store
                      /\ store[resp.id].title = title[1]
                      /\ store[resp.id].content = content[1]
                      /\ store[resp.id].embedding = Embed(content[1]))
    /\ [][ (callers.pc = "validate" /\ callers'.status # 200) => store' = store ]_vars

\* a request with an empty title that was refused, after an earlier request
\* was indexed
C29_Witness ==
    /\ DirectAnswered
    /\ callers.request.title = Some("") /\ callers.request.content = Some("c")
    /\ callers.status = 400
    /\ store # <<>>

\* The key's extension is none of .pdf, .txt, .docx, .md, whatever its case
Unsupported(key) == FileExtension(key) \notin SupportedExtensions

\* C30 as claimed: every object of an S3 event whose extension is not
\* supported gets the unsupported-file-type error, with no remote call made
\* for it beyond the read of the object's metadata.
C30_UnsupportedTypeError ==
    callers.handler = "s3" =>
        \A j \in 1..Len(callers.results) :
            Unsupported(callers.results[j].key) =>
                /\ "error" \in DOMAIN callers.results[j]
                /\ callers.results[j].error =
                      <<"Unsupported file type", FileExtension(callers.results[j].key)>>
                /\ callers.calls[j] = <<"head_object">>

\* C30: an object whose extension is not supported fails before its body is
\* downloaded or converted and before any embedding or index call: the only
\* remote call made for it is head_object.  The error is the
\* unsupported-file-type error when that call succeeded and the call's own
\* error when it failed.  The step leaves the store and the indices as they
\* were.
C30_UnsupportedFailsBeforeDownload ==
    /\ [](callers.handler = "s3" =>
            \A j \in 1..Len(callers.results) :
                Unsupported(callers.results[j].key) =>
                    /\ "error" \in DOMAIN callers.results[j]
                    /\ callers.calls[j] = <<"head_object">>
                    /\ callers.failed[j] \in {"none", "head_object"}
                    /\ callers.failed[j] = "none" =>
                          callers.results[j].error =
                              <<"Unsupported file type",
                                FileExtension(callers.results[j].key)>>
                    /\ callers.failed[j] = "head_object" =>
                          callers.results[j].error = <<"s3", "head_object">>)
    /\ [][ ( /\ callers.pc = "loop" /\ Len(callers'.records) > Len(callers.records)
             /\ callers'.records[callers.next].eventSource = Some("aws:s3")
             /\ Unsupported(callers'.records[callers.next].s3[1]) )
           => (store' = store /\ indices' = indices) ]_vars

\* an event whose first object, a.PDF, was indexed and whose second object,
\* a.exe, was refused for its type
C30_Witness ==
    /\ callers.handler = "s3" /\ callers.pc = "done" /\ callers.status = 200
    /\ Len(callers.results) = 2
    /\ callers.results[1].key = "a.PDF"
    /\ "document_id" \in DOMAIN callers.results[1]
    /\ callers.results[1].document_id \in DOMAIN store
    /\ callers.results[2].key = "a.exe"
    /\ callers.results[2].error = <<"Unsupported file type", ".exe">>
    /\ callers.calls[2] = <<"head_object">>


====
